---- MODULE Spec2Model ----
(***************************************************************************)
(* Model of src/server.js: the Gemini chatbot backend.                     *)
(*                                                                         *)
(*   POST /chat                       the function-calling exchange        *)
(*   POST /api/chat/salvar-historico  the MongoDB persistence of a session *)
(*   initializeDatabases()            the start-up database initializer    *)
(*                                                                         *)
(* Every `await` of a handler is a suspension point and ends one action.   *)
(* The Gemini SDK (model.startChat, chat.sendMessage, chat.getHistory),    *)
(* axios and the MongoDB driver are outside src/: they are the environment *)
(* and answer nondeterministically (a reply or a rejection).  The chat     *)
(* session is read through the interface the handler uses: sendMessage     *)
(* resolves to an object offering functionCalls() and response.text(), or  *)
(* rejects; getHistory() yields the session's history.                     *)
(***************************************************************************)
EXTENDS Naturals, Sequences, FiniteSets

\* ------------------------------------------------------------------ bounds

\* The longest returned history a client feeds back into a next /chat call.
MaxHist == 4

\* The number of persistence requests the clients send.
MaxSalvar == 2
MaxProc == 3

\* ------------------------------------------------------------- HTTP slots

\* The /chat requests that may be in flight at the same time.
Req == {"a", "b"}

\* ---------------------------------------------------------------- values

\* req.body.message of a /chat request.
Messages == {"Que horas sao?", "Como esta o clima?"}

\* The text a model reply carries (response.text()).
Texts == {"Ola!", "Sao 10h."}

\* availableFunctions: the names registered at start-up.
availableFunctions == {"getCurrentTime", "getWeather"}

\* functionDeclarations: the `required` list of each declared tool.
requiredArgs(functionName) ==
    IF functionName = "getWeather" THEN {"location"} ELSE {}

\* The names a model's function call may carry: the registered ones and one
\* that is not a key of availableFunctions.
ToolNames == availableFunctions \cup {"getStockPrice"}

\* funcCall.args as the model supplies it: absent, {} or {location: ...}.
ArgsAbsent == "undefined"
ArgsEmpty == "{}"
ArgsLocation == "{location: Sao Paulo, BR}"
ArgValues == {ArgsAbsent, ArgsEmpty, ArgsLocation}

FunctionCalls == [name : ToolNames, args : ArgValues]

\* What follows the first function call in response.functionCalls().
MoreCalls == {<<>>, <<[name |-> "getWeather", args |-> ArgsLocation]>>}

\* What chat.sendMessage resolves to: its text and its function calls.
TextReplies == [text : Texts, calls : {<<>>}]
CallReplies == {[text |-> "", calls |-> <<c>> \o more] :
                    c \in FunctionCalls, more \in MoreCalls}
Replies == TextReplies \cup CallReplies
NoReply == [text |-> "", calls |-> <<>>]
NoCall == [name |-> "", args |-> ""]

\* The objects the tools return.
TimeResult == "{currentTime}"
WeatherResult == "{location, temperature, description}"
WeatherError == "{error: Erro ao obter o clima}"
NoResult == ""

\* How axios.get(url) and the reading of res.data end.
FetchOutcomes == {"ok", "networkError", "malformedBody"}

\* ------------------------------------------------------ history messages

UserContent(text) ==
    [role |-> "user", kind |-> "text", name |-> "", data |-> text]

ModelContent(reply) ==
    IF Len(reply.calls) > 0
    THEN [role |-> "model", kind |-> "functionCall",
          name |-> reply.calls[1].name, data |-> reply.calls[1].args]
    ELSE [role |-> "model", kind |-> "text", name |-> "", data |-> reply.text]

\* The part the handler sends back: {functionResponse: {name, response}}.
FunctionResponseContent(functionName, result) ==
    [role |-> "function", kind |-> "functionResponse",
     name |-> functionName, data |-> result]

\* ------------------------------------------------------------- variables

VARIABLES
    pc,          \* per /chat request: where its handler stands
    body,        \* per /chat request: req.body {message, historico}
    chat,        \* per /chat request: the session's history (chat._history)
    response,    \* per /chat request: `response`, the first model reply
    resultFromFunctionCall, \* per /chat request: the second model reply
    thrown,      \* per /chat request: `error`, what the catch block caught
    funcCall,    \* per /chat request: `funcCall`
    result,      \* per /chat request: `result`
    sent,        \* per /chat request: the functionResponse part sent back
    fetching,    \* per /chat request: axios.get is in flight
    res,         \* per /chat request: what res.json sent
    modelCalls,  \* per /chat request: chat.sendMessage calls made
    toolCalls,   \* per /chat request: availableFunctions[...] invocations
    fetchCalls,  \* per /chat request: axios.get calls made
    roundTrip,   \* per /chat request: historico is a returned history
    registry,    \* the keys of the module-level object availableFunctions
    initPc,      \* initializeDatabases: where it stands
    dbLogs,      \* the module-level `dbLogs`
    dbHistoria,  \* the module-level `dbHistoria`
    salPc,       \* salvar-historico: where its handler stands
    salBody,     \* salvar-historico: req.body
    salDb,       \* salvar-historico: dbHistoria as the handler read it
    novaSessao,  \* salvar-historico: the document handed to insertOne
    salRes,      \* salvar-historico: what res.status(...).json sent
    insertCalls, \* salvar-historico: insertOne calls made by this request
    salvarCount, \* persistence requests received so far
    sessoesChat, \* the documents of the collection "sessoesChat"
    procBody,    \* processar-mensagem: req.body of the last request
    procRes,     \* processar-mensagem: the response sent
    procCount    \* processar-mensagem: requests handled so far

chatVars == <<pc, body, chat, response, resultFromFunctionCall, thrown,
              funcCall, result, sent, fetching, res, modelCalls, toolCalls,
              fetchCalls, roundTrip, registry>>

dbVars == <<initPc, dbLogs, dbHistoria>>

salvarVars == <<salPc, salBody, salDb, novaSessao, salRes, insertCalls, salvarCount,
                sessoesChat>>

procVars == <<procBody, procRes, procCount>>

vars == <<chatVars, dbVars, salvarVars, procVars>>

\* A JavaScript `undefined`: an unassigned variable, an absent body field.
Undefined == "undefined"

\* The identifiers and times a persistence body may carry.
SessionIds == {Undefined, "s1"}
UserIds == {Undefined, "u1"}
BotIds == {Undefined, "b1"}
Times == {"2024-01-01T10:00:00Z"}

\* req.body.messages: absent (<<>>), or present (<<messages>>), empty or not.
MessageLists == {<<>>, << <<>> >>, << <<"oi">> >>}

SalvarBodies ==
    [sessionId : SessionIds, userId : UserIds, botId : BotIds,
     startTime : Times, endTime : Times, messages : MessageLists]

NoSalvarBody ==
    [sessionId |-> Undefined, userId |-> Undefined, botId |-> Undefined,
     startTime |-> Undefined, endTime |-> Undefined, messages |-> <<>>]
NoSessao ==
    [sessionId |-> "", userId |-> "", botId |-> "", startTime |-> "",
     endTime |-> "", messages |-> <<>>]
NoSalvarRes == [status |-> 0, text |-> "", sessionId |-> Undefined]

NoRes == [status |-> 0, resposta |-> "", historico |-> <<>>]
NoBody == [message |-> "", historico |-> <<>>]
NoSent == [name |-> "", response |-> ""]

\* What the /chat try block may throw: a rejected chat.sendMessage, or a
\* TypeError of the handler's own code.
NoError == ""
ModelUnavailableError == "ModelUnavailableError"
TypeError == "TypeError"

\* JSON values of the field historico: absent, an array, or an object
\* (truthy, and not iterable).
JsonUndefined == [type |-> "undefined", items |-> <<>>]
JsonArray(items) == [type |-> "array", items |-> items]
JsonObject == [type |-> "object", items |-> <<>>]

NoProcBody == [mensagem |-> Undefined, historico |-> JsonUndefined]
NoProcRes ==
    [status |-> 0, error |-> Undefined, resposta |-> Undefined,
     historico |-> JsonUndefined]

Init ==
    /\ pc = [r \in Req |-> "idle"]
    /\ body = [r \in Req |-> NoBody]
    /\ chat = [r \in Req |-> <<>>]
    /\ response = [r \in Req |-> NoReply]
    /\ resultFromFunctionCall = [r \in Req |-> NoReply]
    /\ thrown = [r \in Req |-> NoError]
    /\ funcCall = [r \in Req |-> NoCall]
    /\ result = [r \in Req |-> NoResult]
    /\ sent = [r \in Req |-> NoSent]
    /\ fetching = [r \in Req |-> FALSE]
    /\ res = [r \in Req |-> NoRes]
    /\ modelCalls = [r \in Req |-> 0]
    /\ toolCalls = [r \in Req |-> 0]
    /\ fetchCalls = [r \in Req |-> 0]
    /\ roundTrip = [r \in Req |-> FALSE]
    /\ registry = availableFunctions
    /\ initPc = "connectLogs"
    /\ dbLogs = Undefined
    /\ dbHistoria = Undefined
    /\ salPc = "idle"
    /\ salBody = NoSalvarBody
    /\ salDb = Undefined
    /\ novaSessao = NoSessao
    /\ salRes = NoSalvarRes
    /\ insertCalls = 0
    /\ salvarCount = 0
    /\ sessoesChat = <<>>
    /\ procBody = NoProcBody
    /\ procRes = NoProcRes
    /\ procCount = 0

\* ------------------------------------------------------------ /chat parts

\* The supplied history is dropped: every session starts empty.
historyDropped(historico) == <<>>

\* `historico || []`; an absent field is <<>>, a present one <<historico>>.
historyOrEmpty(historico) ==
    IF historico = <<>> THEN <<>> ELSE historico[1]

\* chat.sendMessage resolving: the session appends what was sent and the
\* reply it received.
sendMessage(history, content, reply) ==
    history \o <<content, ModelContent(reply)>>

\* chat.getHistory().
getHistory(history) == history

\* response.functionCalls().length > 0
hasFunctionCalls(reply) == Len(reply.calls) > 0

\* The last function call of the reply is picked instead of the first.
lastFunctionCall(reply) == reply.calls[Len(reply.calls)]

\* response.functionCalls()[0]
firstFunctionCall(reply) == reply.calls[1]

\* The success answer is sent with the error branch's empty history.
jsonReplyNoHistory(text, history) ==
    [status |-> 200, resposta |-> text, historico |-> <<>>]

\* res.json({resposta, historico: chat.getHistory()})
jsonReply(text, history) ==
    [status |-> 200, resposta |-> text, historico |-> getHistory(history)]

\* The catch block answers with the session's history as it stands.
jsonErrorPartial(history) ==
    [status |-> 500, resposta |-> "Erro interno no servidor.",
     historico |-> history]

\* The catch block: res.status(500).json({resposta: ..., historico: []}).
jsonError(history) ==
    [status |-> 500, resposta |-> "Erro interno no servidor.",
     historico |-> <<>>]

\* availableFunctions[functionName] is a function.
isRegistered(functionName) == functionName \in registry

\* getWeather reaches axios.get unless reading args.location throws.
weatherThrows(args) == args = ArgsAbsent

\* getWeather's try/catch around axios.get and the reading of res.data.
weatherResult(outcome) ==
    IF outcome = "ok" THEN WeatherResult ELSE WeatherError

\* One session object is kept for all requests: starting a chat replaces
\* the history every request in flight works on.
startChatShared(r, history) == [q \in Req |-> history]

\* model.startChat({tools, history}): a session of the request's own.
startChat(r, history) == [chat EXCEPT ![r] = history]

\* ---------------------------------------------------------- /chat actions

\* The handler up to its first await: startChat, then chat.sendMessage.
ChatStart(r, b, isRoundTrip) ==
    /\ pc[r] \in {"idle", "Done", "Failed"}
    /\ pc' = [pc EXCEPT ![r] = "AwaitingModel"]
    /\ body' = [body EXCEPT ![r] = b]
    /\ chat' = startChat(r, historyOrEmpty(b.historico))
    /\ response' = [response EXCEPT ![r] = NoReply]
    /\ resultFromFunctionCall' = [resultFromFunctionCall EXCEPT ![r] = NoReply]
    /\ thrown' = [thrown EXCEPT ![r] = NoError]
    /\ funcCall' = [funcCall EXCEPT ![r] = NoCall]
    /\ result' = [result EXCEPT ![r] = NoResult]
    /\ sent' = [sent EXCEPT ![r] = NoSent]
    /\ fetching' = [fetching EXCEPT ![r] = FALSE]
    /\ res' = [res EXCEPT ![r] = NoRes]
    /\ modelCalls' = [modelCalls EXCEPT ![r] = 1]
    /\ toolCalls' = [toolCalls EXCEPT ![r] = 0]
    /\ fetchCalls' = [fetchCalls EXCEPT ![r] = 0]
    /\ roundTrip' = [roundTrip EXCEPT ![r] = isRoundTrip]
    /\ UNCHANGED <<registry, dbVars, salvarVars, procVars>>

\* req.body.message as the handler reads it: a text, or undefined when the
\* field is missing.  The handler tests neither.
BodyMessages == Messages \cup {Undefined}

\* A client posts a message with no history or an empty one.
ChatRequest(r) ==
    \E message \in BodyMessages, historico \in {<<>>, << <<>> >>} :
        ChatStart(r, [message |-> message, historico |-> historico], FALSE)

\* A client posts the history its last call returned.  The history is made
\* of plain strings and objects, which res.json and bodyParser.json carry
\* over unchanged.
ChatRoundTrip(r) ==
    /\ pc[r] = "Done"
    /\ Len(res[r].historico) <= MaxHist
    /\ \E message \in BodyMessages :
        ChatStart(r, [message |-> message,
                      historico |-> <<res[r].historico>>], TRUE)

\* The catch block, from any await of the try block.
ChatFail(r, error) ==
    /\ thrown' = [thrown EXCEPT ![r] = error]
    /\ pc' = [pc EXCEPT ![r] = "Failed"]
    /\ res' = [res EXCEPT ![r] = jsonError(chat[r])]
    /\ fetching' = [fetching EXCEPT ![r] = FALSE]

\* The catch block also stores the failed exchange in the history
\* collection.
ModelFailsStored(r) ==
    /\ pc[r] = "AwaitingModel"
    /\ ChatFail(r, ModelUnavailableError)
    /\ sessoesChat' = Append(sessoesChat, NoSessao)
    /\ UNCHANGED <<body, chat, response, resultFromFunctionCall, funcCall,
                   result, sent, modelCalls, toolCalls, fetchCalls, roundTrip,
                   registry, dbVars, salPc, salBody, salDb, novaSessao,
                   salRes, insertCalls, salvarCount, procVars>>

\* The first chat.sendMessage rejects.
ModelFails(r) ==
    /\ UNCHANGED <<registry, dbVars, salvarVars, procVars>>
    /\ pc[r] = "AwaitingModel"
    /\ ChatFail(r, ModelUnavailableError)
    /\ UNCHANGED <<body, chat, response, resultFromFunctionCall, funcCall, result, sent, modelCalls,
                   toolCalls, fetchCalls, roundTrip>>

\* The first chat.sendMessage resolves: the text branch answers, the
\* function-call branch picks the first call.
ModelReplies(r) ==
    /\ UNCHANGED <<registry, dbVars, salvarVars, procVars>>
    /\ pc[r] = "AwaitingModel"
    /\ \E reply \in Replies :
        LET history == sendMessage(chat[r], UserContent(body[r].message), reply)
        IN  /\ chat' = [chat EXCEPT ![r] = history]
            /\ response' = [response EXCEPT ![r] = reply]
            /\ IF hasFunctionCalls(reply)
               THEN /\ funcCall' = [funcCall EXCEPT ![r] = firstFunctionCall(reply)]
                    /\ pc' = [pc EXCEPT ![r] = "ToolRequested"]
                    /\ UNCHANGED res
               ELSE /\ res' = [res EXCEPT ![r] = jsonReply(reply.text, history)]
                    /\ pc' = [pc EXCEPT ![r] = "Done"]
                    /\ UNCHANGED funcCall
    /\ UNCHANGED <<body, resultFromFunctionCall, thrown, result, sent,
                   fetching, modelCalls, toolCalls, fetchCalls, roundTrip>>

\* The tool's promise is not awaited: the part is sent before the result
\* is there.
SendToolResultUnawaited(r, value) ==
    /\ result' = [result EXCEPT ![r] = value]
    /\ sent' = [sent EXCEPT ![r] =
                    [name |-> funcCall[r].name, response |-> NoResult]]
    /\ modelCalls' = [modelCalls EXCEPT ![r] = modelCalls[r] + 1]
    /\ pc' = [pc EXCEPT ![r] = "AwaitingModelAfterTool"]

\* After the tool result is sent the handler goes back to await the model
\* as for a user message, as a loop over tool rounds would.
SendToolResultLoop(r, value) ==
    /\ result' = [result EXCEPT ![r] = value]
    /\ sent' = [sent EXCEPT ![r] =
                    [name |-> funcCall[r].name, response |-> value]]
    /\ modelCalls' = [modelCalls EXCEPT ![r] = modelCalls[r] + 1]
    /\ pc' = [pc EXCEPT ![r] = "AwaitingModel"]

\* The second chat.sendMessage is issued with the functionResponse part.
SendToolResult(r, value) ==
    /\ result' = [result EXCEPT ![r] = value]
    /\ sent' = [sent EXCEPT ![r] =
                    [name |-> funcCall[r].name, response |-> value]]
    /\ modelCalls' = [modelCalls EXCEPT ![r] = modelCalls[r] + 1]
    /\ pc' = [pc EXCEPT ![r] = "AwaitingModelAfterTool"]

\* availableFunctions[functionName](args)
ToolDispatch(r) ==
    /\ UNCHANGED <<registry, dbVars, salvarVars, procVars>>
    /\ pc[r] = "ToolRequested"
    /\ ~fetching[r]
    /\ LET functionName == funcCall[r].name
           args == funcCall[r].args
       IN  \/ /\ ~isRegistered(functionName)
              /\ ChatFail(r, TypeError)
              /\ UNCHANGED <<result, sent, modelCalls, toolCalls, fetchCalls>>
           \/ /\ isRegistered(functionName)
              /\ functionName = "getCurrentTime"
              /\ toolCalls' = [toolCalls EXCEPT ![r] = toolCalls[r] + 1]
              /\ SendToolResult(r, TimeResult)
              /\ UNCHANGED <<res, thrown, fetching, fetchCalls>>
           \/ /\ isRegistered(functionName)
              /\ functionName = "getWeather"
              /\ weatherThrows(args)
              /\ toolCalls' = [toolCalls EXCEPT ![r] = toolCalls[r] + 1]
              /\ ChatFail(r, TypeError)
              /\ UNCHANGED <<result, sent, modelCalls, fetchCalls>>
           \/ /\ isRegistered(functionName)
              /\ functionName = "getWeather"
              /\ ~weatherThrows(args)
              /\ toolCalls' = [toolCalls EXCEPT ![r] = toolCalls[r] + 1]
              /\ fetchCalls' = [fetchCalls EXCEPT ![r] = fetchCalls[r] + 1]
              /\ fetching' = [fetching EXCEPT ![r] = TRUE]
              /\ UNCHANGED <<pc, res, thrown, result, sent, modelCalls>>
    /\ UNCHANGED <<body, chat, response, resultFromFunctionCall, funcCall,
                   roundTrip>>

\* axios.get settles; getWeather returns the data or the caught error.
FetchReturns(r) ==
    /\ UNCHANGED <<registry, dbVars, salvarVars, procVars>>
    /\ pc[r] = "ToolRequested"
    /\ fetching[r]
    /\ \E outcome \in FetchOutcomes : SendToolResult(r, weatherResult(outcome))
    /\ fetching' = [fetching EXCEPT ![r] = FALSE]
    /\ UNCHANGED <<body, chat, response, resultFromFunctionCall, thrown,
                   funcCall, res, toolCalls, fetchCalls, roundTrip>>

\* The second chat.sendMessage rejects.
ModelFailsAfterTool(r) ==
    /\ UNCHANGED <<registry, dbVars, salvarVars, procVars>>
    /\ pc[r] = "AwaitingModelAfterTool"
    /\ ChatFail(r, ModelUnavailableError)
    /\ UNCHANGED <<body, chat, response, resultFromFunctionCall, funcCall, result, sent, modelCalls,
                   toolCalls, fetchCalls, roundTrip>>

\* The second chat.sendMessage resolves: its text is the answer.
ModelRepliesAfterTool(r) ==
    /\ UNCHANGED <<registry, dbVars, salvarVars, procVars>>
    /\ pc[r] = "AwaitingModelAfterTool"
    /\ \E reply \in Replies :
        LET history == sendMessage(chat[r],
                           FunctionResponseContent(sent[r].name,
                                                   sent[r].response), reply)
        IN  /\ chat' = [chat EXCEPT ![r] = history]
            /\ resultFromFunctionCall' =
                   [resultFromFunctionCall EXCEPT ![r] = reply]
            /\ res' = [res EXCEPT ![r] = jsonReply(reply.text, history)]
    /\ pc' = [pc EXCEPT ![r] = "Done"]
    /\ UNCHANGED <<body, response, thrown, funcCall, result, sent, fetching,
                   modelCalls, toolCalls, fetchCalls, roundTrip>>

\* The steps of one /chat request.
Chat(r) ==
    \/ ChatRequest(r)
    \/ ChatRoundTrip(r)
    \/ ModelFails(r)
    \/ ModelReplies(r)
    \/ ToolDispatch(r)
    \/ FetchReturns(r)
    \/ ModelFailsAfterTool(r)
    \/ ModelRepliesAfterTool(r)

\* /chat requests served one after another.
NextChat == \E r \in {"a"} : Chat(r)

SpecChat == Init /\ [][NextChat]_vars

\* One /chat request after another, each posted without a history, where
\* every pending promise settles: a model call resolves or rejects, the
\* tool is dispatched, axios.get settles.
NextChatLive ==
    \E r \in {"a"} :
        \/ ChatRequest(r)
        \/ ModelFails(r)
        \/ ModelReplies(r)
        \/ ToolDispatch(r)
        \/ FetchReturns(r)
        \/ ModelFailsAfterTool(r)
        \/ ModelRepliesAfterTool(r)

ChatFairness ==
    \A r \in {"a"} :
        /\ WF_vars(ModelFails(r) \/ ModelReplies(r))
        /\ WF_vars(ToolDispatch(r))
        /\ WF_vars(FetchReturns(r))
        /\ WF_vars(ModelFailsAfterTool(r) \/ ModelRepliesAfterTool(r))

SpecChatLive == Init /\ [][NextChatLive]_vars /\ ChatFairness

\* Two clients at once, each posting its own message without a history;
\* their handlers interleave at every await.
ClientMessage == [a |-> "Que horas sao?", b |-> "Como esta o clima?"]

ChatRequestOwn(r) ==
    ChatStart(r, [message |-> ClientMessage[r], historico |-> <<>>], FALSE)

NextConcurrent ==
    \E r \in Req :
        \/ ChatRequestOwn(r)
        \/ ModelFails(r)
        \/ ModelReplies(r)
        \/ ToolDispatch(r)
        \/ FetchReturns(r)
        \/ ModelFailsAfterTool(r)
        \/ ModelRepliesAfterTool(r)

SpecConcurrent == Init /\ [][NextConcurrent]_vars

\* ------------------------------------------------- initializeDatabases()

\* client.connect() of the logs database resolves: dbLogs is assigned and
\* the history database's connection starts.
LogsConnected ==
    /\ UNCHANGED <<chatVars, salvarVars, procVars>>
    /\ initPc = "connectLogs"
    /\ dbLogs' = "IIW2023B_Logs"
    /\ initPc' = "connectHistoria"
    /\ UNCHANGED dbHistoria

\* The two connections are opened together: the history database's
\* resolves whether or not the logs database's has.
HistoriaConnectedInParallel ==
    /\ UNCHANGED <<chatVars, salvarVars, procVars>>
    /\ initPc \in {"connectLogs", "connectHistoria"}
    /\ dbHistoria' = "chatbotHistoriaDB"
    /\ initPc' = IF initPc = "connectHistoria" THEN "done" ELSE initPc
    /\ UNCHANGED dbLogs

\* client.connect() of the history database resolves.
HistoriaConnected ==
    /\ UNCHANGED <<chatVars, salvarVars, procVars>>
    /\ initPc = "connectHistoria"
    /\ dbHistoria' = "chatbotHistoriaDB"
    /\ initPc' = "done"
    /\ UNCHANGED dbLogs

\* Either client.connect() rejects: initializeDatabases() rejects and
\* assigns nothing more.
ConnectFails ==
    /\ UNCHANGED <<chatVars, salvarVars, procVars>>
    /\ initPc \in {"connectLogs", "connectHistoria"}
    /\ initPc' = "rejected"
    /\ UNCHANGED <<dbLogs, dbHistoria>>

InitializeDatabases ==
    \/ LogsConnected
    \/ HistoriaConnected
    \/ ConnectFails

\* ----------------------------------------- /api/chat/salvar-historico

\* !x of an identifier.
isFalsy(x) == x = Undefined

\* !messages?.length
noMessages(messages) ==
    IF messages = <<>> THEN TRUE ELSE Len(messages[1]) = 0

\* The handle is used without being tested.
connectionAssumed(db) == FALSE

\* !dbHistoria
noConnection(db) == isFalsy(db)

\* The botId test is left out of the validation.
isIncompleteNoBot(b) == isFalsy(b.sessionId) \/ noMessages(b.messages)

\* !sessionId || !botId || !messages?.length
isIncomplete(b) ==
    isFalsy(b.sessionId) \/ isFalsy(b.botId) \/ noMessages(b.messages)

\* new Date(time)
newDate(time) == IF time = Undefined THEN "Invalid Date" ELSE time

\* The document built from the body; userId defaults to 'anonimo'.
buildSessao(b) ==
    [sessionId |-> b.sessionId,
     userId |-> IF isFalsy(b.userId) THEN "anonimo" ELSE b.userId,
     botId |-> b.botId,
     startTime |-> newDate(b.startTime),
     endTime |-> newDate(b.endTime),
     messages |-> b.messages[1]]

\* The confirmation is sent without the session's identifier.
savedReplyNoId(sessionId) ==
    [status |-> 201, text |-> "Historico salvo!", sessionId |-> Undefined]

\* res.status(201).json({message: "Histórico salvo!", sessionId})
savedReply(sessionId) ==
    [status |-> 201, text |-> "Historico salvo!", sessionId |-> sessionId]

\* The handler up to its first await: the two early returns, or insertOne.
SalvarStart ==
    /\ UNCHANGED <<chatVars, dbVars, procVars>>
    /\ salPc \in {"idle", "done"}
    /\ salvarCount < MaxSalvar
    /\ salvarCount' = salvarCount + 1
    /\ \E b \in SalvarBodies :
        /\ salBody' = b
        /\ salDb' = dbHistoria
        /\ IF noConnection(dbHistoria)
           THEN /\ salRes' = [status |-> 500,
                              text |-> "Sem conexao com o banco de historico.",
                              sessionId |-> Undefined]
                /\ salPc' = "done"
                /\ insertCalls' = 0
                /\ novaSessao' = NoSessao
           ELSE IF isIncomplete(b)
           THEN /\ salRes' = [status |-> 400, text |-> "Dados incompletos.",
                              sessionId |-> Undefined]
                /\ salPc' = "done"
                /\ insertCalls' = 0
                /\ novaSessao' = NoSessao
           ELSE /\ novaSessao' = buildSessao(b)
                /\ insertCalls' = 1
                /\ salPc' = "inserting"
                /\ salRes' = NoSalvarRes
    /\ UNCHANGED sessoesChat

\* insertOne resolves: 201 with the submitted sessionId.
InsertResolves ==
    /\ UNCHANGED <<chatVars, dbVars, procVars>>
    /\ salPc = "inserting"
    /\ sessoesChat' = Append(sessoesChat, novaSessao)
    /\ salRes' = savedReply(salBody.sessionId)
    /\ salPc' = "done"
    /\ UNCHANGED <<salBody, salDb, novaSessao, insertCalls, salvarCount>>

\* insertOne rejects: the catch block answers 500.
InsertRejects ==
    /\ UNCHANGED <<chatVars, dbVars, procVars>>
    /\ salPc = "inserting"
    /\ salRes' = [status |-> 500, text |-> "Erro ao salvar historico.",
                  sessionId |-> Undefined]
    /\ salPc' = "done"
    /\ UNCHANGED <<salBody, salDb, novaSessao, insertCalls, salvarCount,
                   sessoesChat>>

Salvar ==
    \/ SalvarStart
    \/ InsertResolves
    \/ InsertRejects

\* The initializer and the persistence requests.
NextPersist == InitializeDatabases \/ Salvar

SpecPersist == Init /\ [][NextPersist]_vars

\* One client of /chat posting its message, while the initializer runs and
\* persistence requests arrive.
NextChatAndPersist ==
    \/ \E r \in {"a"} :
          \/ ChatRequestOwn(r)
          \/ ModelFails(r)
          \/ ModelReplies(r)
          \/ ToolDispatch(r)
          \/ FetchReturns(r)
          \/ ModelFailsAfterTool(r)
          \/ ModelRepliesAfterTool(r)
    \/ InitializeDatabases
    \/ Salvar

SpecChatAndPersist == Init /\ [][NextChatAndPersist]_vars

\* ---------------------------------------- /api/chat/processar-mensagem

\* req.body.mensagem: missing, empty, or a text.
Mensagens == {Undefined, "", "Oi", "Tudo bem?"}

\* A history that came from elsewhere than this endpoint.
OtherHistory ==
    <<[from |-> "user", text |-> "Bom dia"], [from |-> "bot", text |-> "Ola!"]>>

\* !mensagem
noMensagem(mensagem) == isFalsy(mensagem) \/ mensagem = ""

\* `Você disse: "${mensagem}". Resposta automática temporária.`
respostaBot(mensagem) ==
    "Voce disse: \"" \o mensagem \o "\". Resposta automatica temporaria."

\* historico || []
orEmptyArray(historico) ==
    IF historico = JsonUndefined THEN JsonArray(<<>>) ELSE historico

\* The spread ...(historico || []) throws a TypeError on a value that is
\* not iterable.
spreadThrows(historico) == orEmptyArray(historico).type # "array"

\* The returned history starts afresh: the input history is left out.
novoHistoricoFresh(historico, mensagem, resposta) ==
    <<[from |-> "user", text |-> mensagem], [from |-> "bot", text |-> resposta]>>

\* [...(historico || []), {from: 'user', ...}, {from: 'bot', ...}]
novoHistorico(historico, mensagem, resposta) ==
    orEmptyArray(historico).items \o
        <<[from |-> "user", text |-> mensagem], [from |-> "bot", text |-> resposta]>>

\* The whole handler: it has no await.
processarMensagem(mensagem, historico) ==
    IF noMensagem(mensagem)
    THEN [status |-> 400, error |-> "Mensagem e obrigatoria",
          resposta |-> Undefined, historico |-> JsonUndefined]
    ELSE IF spreadThrows(historico)
    THEN [status |-> 500, error |-> "Erro interno",
          resposta |-> Undefined, historico |-> JsonUndefined]
    ELSE [status |-> 200, error |-> Undefined,
          resposta |-> respostaBot(mensagem),
          historico |-> JsonArray(novoHistorico(historico, mensagem,
                                                respostaBot(mensagem)))]

\* A client posts a message with no history, an empty one, one from
\* elsewhere, the one its last call returned, or a value that is no array.
ProcessarMensagem ==
    /\ procCount < MaxProc
    /\ procCount' = procCount + 1
    /\ \E mensagem \in Mensagens,
          historico \in {JsonUndefined, JsonArray(<<>>), JsonArray(OtherHistory),
                         JsonObject, procRes.historico} :
        /\ procBody' = [mensagem |-> mensagem, historico |-> historico]
        /\ procRes' = processarMensagem(mensagem, historico)
    /\ UNCHANGED <<chatVars, dbVars, salvarVars>>

SpecProcessar == Init /\ [][ProcessarMensagem]_vars

\* ------------------------------------------------------------ the server

Next ==
    \/ \E r \in Req : Chat(r)
    \/ InitializeDatabases
    \/ Salvar
    \/ ProcessarMensagem

Spec == Init /\ [][Next]_vars

\* ================================================================ claims

\* The history a /chat request supplied (empty when the field is absent).
supplied(r) == IF body[r].historico = <<>> THEN <<>> ELSE body[r].historico[1]

IsPrefix(s, t) == Len(s) <= Len(t) /\ SubSeq(t, 1, Len(s)) = s

\* The tool result sent to the model is an error payload.
isErrorPayload(payload) == payload = WeatherError

\* The arguments the model supplied with a call.
suppliedArgs(args) == IF args = ArgsLocation THEN {"location"} ELSE {}

\* C1: a /chat request whose first model reply is plain text ends in Done
\* and returns its input history followed by exactly the user message and
\* the model reply.
C1_TextReplyAppendsTwo ==
    \A r \in Req :
        response[r] \in TextReplies =>
            /\ pc[r] = "Done"
            /\ res[r].status = 200
            /\ res[r].resposta = response[r].text
            /\ Len(res[r].historico) = Len(supplied(r)) + 2
            /\ res[r].historico =
                   supplied(r) \o <<UserContent(body[r].message),
                                    ModelContent(response[r])>>

C1_Witness ==
    \E r \in Req :
        /\ response[r] \in TextReplies
        /\ pc[r] = "Done"
        /\ Len(supplied(r)) = 4

\* C2: a /chat request whose first model reply requests a registered tool
\* returns its input history followed by exactly four messages (user,
\* tool-call request, tool result, final reply), whether the tool succeeds
\* or fails.
C2_Original ==
    \A r \in Req :
        ( /\ pc[r] \in {"Done", "Failed"}
          /\ hasFunctionCalls(response[r])
          /\ response[r].calls[1].name \in availableFunctions
          /\ thrown[r] # ModelUnavailableError ) =>
            /\ pc[r] = "Done"
            /\ Len(res[r].historico) = Len(supplied(r)) + 4
            /\ IsPrefix(supplied(r), res[r].historico)
            /\ LET h == res[r].historico
                   n == Len(supplied(r))
               IN  /\ h[n + 1] = UserContent(body[r].message)
                   /\ h[n + 2].kind = "functionCall"
                   /\ h[n + 3].kind = "functionResponse"
                   /\ h[n + 3].name = h[n + 2].name
                   /\ h[n + 4].role = "model"

\* C3: a tool-call request naming an unregistered tool yields an error
\* ToolResult that is sent back to the model; nothing is raised and the
\* request does not end in Failed for it.
C3_Original ==
    \A r \in Req :
        ( /\ funcCall[r] # NoCall
          /\ ~(funcCall[r].name \in availableFunctions)
          /\ pc[r] # "ToolRequested" ) =>
            /\ thrown[r] # TypeError
            /\ sent[r].name = funcCall[r].name
            /\ isErrorPayload(sent[r].response)

\* C4: when the model fails at either model call, the request ends in
\* Failed and answers the generic internal error with an empty history.
C4_ModelFailureYieldsEmptyHistory ==
    \A r \in Req :
        thrown[r] = ModelUnavailableError =>
            /\ pc[r] = "Failed"
            /\ res[r].status = 500
            /\ res[r].resposta = "Erro interno no servidor."
            /\ res[r].historico = <<>>

C4_Witness ==
    \E r \in Req :
        /\ thrown[r] = ModelUnavailableError
        /\ modelCalls[r] = 2
        /\ toolCalls[r] = 1
        /\ Len(chat[r]) > 0

\* C5: for every registered tool and every argument value, a failure while
\* invoking the tool is caught and never propagated as an exception, so
\* the request does not end in Failed because of the tool.
C5_Original ==
    \A r \in Req :
        ( /\ funcCall[r] # NoCall
          /\ funcCall[r].name \in availableFunctions ) =>
            thrown[r] # TypeError

\* C6: when an argument the tool's schema requires is missing, an error
\* ToolResult is returned and the external weather fetch is not invoked.
C6_Original ==
    \A r \in Req :
        ( /\ funcCall[r] # NoCall
          /\ ~(requiredArgs(funcCall[r].name) \subseteq
                  suppliedArgs(funcCall[r].args)) ) =>
            /\ fetchCalls[r] = 0
            /\ ~fetching[r]

\* C7: a /chat request executes at most one tool and calls the model at
\* most twice; the tool run is the first call of the first reply, and the
\* reply to the tool result ends the request in Done with its text as the
\* answer, whatever it is.
C7_OneToolTwoModelCalls ==
    \A r \in Req :
        /\ toolCalls[r] <= 1
        /\ modelCalls[r] <= 2
        /\ toolCalls[r] = 1 => funcCall[r] = response[r].calls[1]
        /\ resultFromFunctionCall[r] # NoReply =>
               /\ pc[r] = "Done"
               /\ res[r].status = 200
               /\ res[r].resposta = resultFromFunctionCall[r].text
               /\ toolCalls[r] = 1
               /\ modelCalls[r] = 2

C7_Witness ==
    \E r \in Req :
        /\ pc[r] = "Done"
        /\ resultFromFunctionCall[r] \in CallReplies
        /\ Len(response[r].calls) = 2
        /\ toolCalls[r] = 1

\* C8: a /chat call fed the history the previous call returned starts its
\* session from exactly that history, never alters it, and returns a
\* strictly longer history that has it as a prefix.
C8_RoundTripExtends ==
    \A r \in Req :
        roundTrip[r] =>
            /\ IsPrefix(supplied(r), chat[r])
            /\ pc[r] = "AwaitingModel" => chat[r] = supplied(r)
            /\ pc[r] = "Done" =>
                   /\ res[r].status = 200
                   /\ IsPrefix(supplied(r), res[r].historico)
                   /\ Len(res[r].historico) > Len(supplied(r))

C8_Witness ==
    \E r \in Req :
        /\ roundTrip[r]
        /\ pc[r] = "Done"
        /\ Len(supplied(r)) = 4
        /\ Len(res[r].historico) = 8

\* C11: a /chat request whose message text is missing is rejected as a
\* client input error: the model is never called and no tool is executed.
C11_Original ==
    \A r \in Req :
        ( pc[r] # "idle" /\ body[r].message = Undefined ) =>
            /\ modelCalls[r] = 0
            /\ toolCalls[r] = 0
            /\ pc[r] \in {"Done", "Failed"} => res[r].status = 400

\* C12: a persistence request with every required field, arriving once
\* dbHistoria is assigned, makes exactly one insert; it is answered 201 with
\* the submitted sessionId when the insert resolves, and with an error and
\* no confirmation when the insert rejects.
C12_CompleteRequestStoredOnce ==
    ( /\ salPc # "idle"
      /\ salDb # Undefined
      /\ ~isFalsy(salBody.sessionId)
      /\ ~isFalsy(salBody.botId)
      /\ ~noMessages(salBody.messages) ) =>
        /\ insertCalls = 1
        /\ novaSessao.sessionId = salBody.sessionId
        /\ salPc = "done" =>
               \/ /\ salRes.status = 201
                  /\ salRes.sessionId = salBody.sessionId
                  /\ Len(sessoesChat) >= 1
                  /\ sessoesChat[Len(sessoesChat)] = novaSessao
               \/ /\ salRes.status = 500
                  /\ salRes.text = "Erro ao salvar historico."
                  /\ salRes.sessionId = Undefined

C12_Witness ==
    /\ salPc = "done"
    /\ salDb # Undefined
    /\ salBody.sessionId = "s1"
    /\ salRes.status = 201
    /\ salRes.sessionId = "s1"
    /\ Len(sessoesChat) = 2

\* The states of a /chat request and the moves between them; a request
\* replaces an ended one in its slot, starting again from AwaitingModel.
NonTerminal == {"AwaitingModel", "ToolRequested", "AwaitingModelAfterTool"}
Terminal == {"Done", "Failed"}
Moves ==
    {<<"idle", "AwaitingModel">>,
     <<"AwaitingModel", "Done">>,
     <<"AwaitingModel", "ToolRequested">>,
     <<"ToolRequested", "AwaitingModelAfterTool">>,
     <<"AwaitingModelAfterTool", "Done">>}
        \cup {<<from, "Failed">> : from \in NonTerminal}

\* A new request takes the slot: nothing of the ended one is kept.
isNewRequest(r) ==
    /\ pc'[r] = "AwaitingModel"
    /\ res'[r] = NoRes
    /\ response'[r] = NoReply
    /\ thrown'[r] = NoError
    /\ modelCalls'[r] = 1
    /\ toolCalls'[r] = 0

\* C13: a /chat request starts in AwaitingModel and moves only along
\* AwaitingModel -> Done, AwaitingModel -> ToolRequested ->
\* AwaitingModelAfterTool -> Done, or from a non-terminal state to Failed;
\* an ended request moves no more and keeps its answer; and when the model
\* and tool calls settle, every request ends in Done or Failed.
C13_StateMachine ==
    /\ [][\A r \in Req :
            /\ pc[r] \notin Terminal =>
                   pc'[r] = pc[r] \/ <<pc[r], pc'[r]>> \in Moves
            /\ pc[r] \in Terminal =>
                   \/ pc'[r] = pc[r] /\ res'[r] = res[r]
                   \/ isNewRequest(r)]_vars
    /\ \A r \in Req : (pc[r] \in NonTerminal) ~> (pc[r] \in Terminal)

C13_Witness ==
    \E r \in Req :
        /\ pc[r] = "Done"
        /\ toolCalls[r] = 1
        /\ fetchCalls[r] = 1
        /\ modelCalls[r] = 2

\* C14: within one /chat request the tool is invoked only after the first
\* model reply is received; the second model call is made only once the
\* tool's result is there and carries exactly that result under the name
\* the model requested; the answer is sent only after the last model reply.
C14_StepsInOrder ==
    \A r \in Req :
        /\ toolCalls[r] >= 1 =>
               /\ response[r] \in CallReplies
               /\ funcCall[r] \in FunctionCalls
        /\ fetching[r] => modelCalls[r] = 1 /\ result[r] = NoResult
        /\ modelCalls[r] = 2 =>
               /\ toolCalls[r] = 1
               /\ ~fetching[r]
               /\ result[r] # NoResult
               /\ sent[r] = [name |-> response[r].calls[1].name,
                             response |-> result[r]]
        /\ modelCalls[r] < 2 => sent[r] = NoSent
        /\ res[r].status = 200 =>
               IF Len(response[r].calls) > 0
               THEN /\ resultFromFunctionCall[r] \in Replies
                    /\ res[r].resposta = resultFromFunctionCall[r].text
                    /\ res[r].historico[Len(res[r].historico) - 1] =
                           FunctionResponseContent(response[r].calls[1].name,
                                                   result[r])
               ELSE /\ response[r] \in TextReplies
                    /\ res[r].resposta = response[r].text

C14_Witness ==
    \E r \in Req :
        /\ pc[r] = "AwaitingModelAfterTool"
        /\ modelCalls[r] = 2
        /\ result[r] = WeatherError
        /\ sent[r] = [name |-> "getWeather", response |-> WeatherError]

\* Everything the handler of one /chat request holds.
requestState(r) ==
    <<pc[r], body[r], chat[r], response[r], resultFromFunctionCall[r],
      thrown[r], funcCall[r], result[r], sent[r], fetching[r], res[r],
      modelCalls[r], toolCalls[r], fetchCalls[r], roundTrip[r]>>

\* What a request answers when it runs alone with these replies.
answerAlone(r) ==
    IF Len(response[r].calls) = 0
    THEN [status |-> 200, resposta |-> response[r].text,
          historico |-> supplied(r) \o
              <<UserContent(body[r].message), ModelContent(response[r])>>]
    ELSE [status |-> 200, resposta |-> resultFromFunctionCall[r].text,
          historico |-> supplied(r) \o
              <<UserContent(body[r].message), ModelContent(response[r]),
                FunctionResponseContent(response[r].calls[1].name, result[r]),
                ModelContent(resultFromFunctionCall[r])>>]

\* C15: however two concurrent /chat requests interleave at their awaits,
\* each one's answer is what it would be alone with the same model and
\* tool replies; a step of one request leaves everything the other holds
\* unchanged; the tool registry is never modified.
C15_RequestsIndependent ==
    /\ [](\A r \in Req :
            /\ pc[r] = "Done" => res[r] = answerAlone(r)
            /\ pc[r] = "Failed" =>
                   res[r] = [status |-> 500,
                             resposta |-> "Erro interno no servidor.",
                             historico |-> <<>>])
    /\ [][/\ \E r \in Req : \A q \in Req \ {r} :
                  requestState(q)' = requestState(q)
          /\ registry' = registry]_vars

C15_Witness ==
    /\ pc["a"] = "Done"
    /\ fetchCalls["a"] = 1
    /\ pc["b"] = "AwaitingModelAfterTool"
    /\ toolCalls["b"] = 1
    /\ res["a"].historico[1] = UserContent(ClientMessage["a"])
    /\ chat["b"][1] = UserContent(ClientMessage["b"])

\* C16: a step of a /chat request changes nothing of the persistence
\* endpoint (no insert, no stored document, no response) and nothing of the
\* database handles; a step of a persistence request or of the initializer
\* changes nothing a /chat request holds; and in every state of the
\* initializer and of the persistence requests the /chat answer is the one
\* computed from the request's own inputs and replies.
C16_ChatApartFromPersistence ==
    /\ [][chatVars' # chatVars =>
              dbVars' = dbVars /\ salvarVars' = salvarVars]_vars
    /\ [][salvarVars' # salvarVars \/ dbVars' # dbVars =>
              chatVars' = chatVars]_vars
    /\ [](\A r \in Req : pc[r] = "Done" => res[r] = answerAlone(r))

C16_Witness ==
    /\ pc["a"] = "AwaitingModelAfterTool"
    /\ salPc = "inserting"
    /\ initPc = "done"
    /\ Len(sessoesChat) = 1

\* C17: dbHistoria changes only once, from unassigned, by the initializer's
\* second connection resolving; a persistence request that found it
\* unassigned is answered 500 with no insert and no document built,
\* whatever its body; and the stored collection only changes while the
\* handle is assigned.
C17_AssignedOnceNoInsertBefore ==
    /\ [][dbHistoria' # dbHistoria =>
              /\ dbHistoria = Undefined
              /\ initPc = "connectHistoria"
              /\ initPc' = "done"]_vars
    /\ [](salPc # "idle" /\ salDb = Undefined =>
              /\ salPc = "done"
              /\ salRes.status = 500
              /\ insertCalls = 0
              /\ novaSessao = NoSessao)
    /\ [](salPc = "inserting" => dbHistoria # Undefined)
    /\ [][sessoesChat' # sessoesChat => dbHistoria # Undefined]_vars

C17_Witness ==
    /\ initPc = "done"
    /\ dbHistoria # Undefined
    /\ salPc = "done"
    /\ salDb = Undefined
    /\ ~isIncomplete(salBody)
    /\ salRes.status = 500
    /\ sessoesChat = <<>>

\* The answer of the first early return of salvar-historico.
isNoConnectionReply(reply) ==
    reply = [status |-> 500, text |-> "Sem conexao com o banco de historico.",
             sessionId |-> Undefined]

C19_HistoryExtendedByTwo ==
    procCount > 0 =>
        IF noMensagem(procBody.mensagem)
        THEN /\ procRes.status = 400
             /\ procRes.resposta = Undefined
             /\ procRes.historico = JsonUndefined
        ELSE procBody.historico.type \in {"undefined", "array"} =>
             /\ procRes.status = 200
             /\ procRes.historico.type = "array"
             /\ Len(procRes.historico.items) = Len(procBody.historico.items) + 2
             /\ procRes.historico.items =
                    procBody.historico.items \o
                        <<[from |-> "user", text |-> procBody.mensagem],
                          [from |-> "bot", text |-> procRes.resposta]>>

C19_Witness ==
    /\ procCount = 2
    /\ procBody.mensagem = "Tudo bem?"
    /\ Len(procBody.historico.items) = 2
    /\ procBody.historico.items[1].text = "Oi"
    /\ procRes.status = 200
    /\ Len(procRes.historico.items) = 4

\* C9: a persistence request missing sessionId, userId or botId, or whose
\* message list is missing or empty, is rejected and never reaches the
\* storage insert.
C9_Original ==
    ( /\ salPc # "idle"
      /\ \/ isFalsy(salBody.sessionId)
         \/ isFalsy(salBody.userId)
         \/ isFalsy(salBody.botId)
         \/ noMessages(salBody.messages) ) =>
        /\ salPc = "done"
        /\ salRes.status \in {400, 500}
        /\ insertCalls = 0

\* C9 (amended): a persistence request missing sessionId or botId, or whose
\* message list is missing or empty, is rejected and never reaches the
\* storage insert; a missing userId is stored as 'anonimo'.
C9_IncompleteRejected ==
    /\ ( /\ salPc # "idle"
         /\ \/ isFalsy(salBody.sessionId)
            \/ isFalsy(salBody.botId)
            \/ noMessages(salBody.messages) ) =>
           /\ salPc = "done"
           /\ salRes.status \in {400, 500}
           /\ insertCalls = 0
           /\ novaSessao = NoSessao
    /\ \A i \in 1..Len(sessoesChat) :
           /\ ~isFalsy(sessoesChat[i].sessionId)
           /\ ~isFalsy(sessoesChat[i].botId)
           /\ Len(sessoesChat[i].messages) > 0
           /\ ~isFalsy(sessoesChat[i].userId)

C9_Witness ==
    /\ salPc = "done"
    /\ dbHistoria # Undefined
    /\ isFalsy(salBody.botId)
    /\ ~isFalsy(salBody.sessionId)
    /\ ~noMessages(salBody.messages)
    /\ salRes.status = 400
    /\ insertCalls = 0

\* C10: a persistence request with sessionId and botId present and an empty
\* message list is answered with a validation error in every state of the
\* server, and never writes to storage.
C10_Original ==
    ( /\ salPc # "idle"
      /\ salBody.sessionId = "s1"
      /\ salBody.botId = "b1"
      /\ salBody.messages = << <<>> >> ) =>
        /\ salPc = "done"
        /\ salRes.status = 400
        /\ insertCalls = 0

====
